---- MODULE Spec2Model ----
(***************************************************************************)
(* Employee name resolution of the leave manager (src/main.py):            *)
(* NameMatcher (normalize_name, similarity_score, extract_name_parts,      *)
(* fuzzy_match_employee), fetch_employees_ai and resolve_employee_ai.      *)
(*                                                                         *)
(* Text is a sequence of one-character strings, NULL is the SQL NULL /     *)
(* Python None.  Scores are exact rationals [n, d] in lowest terms with    *)
(* d > 0 (the code uses binary floating point).                            *)
(***************************************************************************)
EXTENDS Integers, Sequences, FiniteSets, TLC

\* ------------------------------------------------------------------------
\* Text primitives (Python str methods and re.sub as used by the code)
\* ------------------------------------------------------------------------

NULL == <<"<NULL>">>

\* str(None), what f"{None}" renders
NoneText == <<"N", "o", "n", "e">>

\* value or ""
OrEmpty(s) == IF s = NULL THEN <<>> ELSE s

\* bool(value) of an optional string
Truthy(s) == s # NULL /\ s # <<>>

\* str.lower on one character
LowerChar(c) ==
    CASE c = "A" -> "a"
      [] c = "B" -> "b"
      [] c = "C" -> "c"
      [] c = "D" -> "d"
      [] c = "N" -> "n"
      [] c = "X" -> "x"
      [] OTHER -> c

\* \s of the regular expressions, and the whitespace of strip() and split()
IsSpace(c) == c = " "

\* \w of the regular expressions: letters, digits, underscore
IsWord(c) == c \in {"a", "b", "c", "d", "e", "n", "o", "p", "s", "v", "x",
                    "A", "B", "C", "D", "N", "X", "1", "2", "_"}

Lower(s) == [i \in 1..Len(s) |-> LowerChar(s[i])]

RECURSIVE LStrip(_)
LStrip(s) == IF s # <<>> /\ IsSpace(Head(s)) THEN LStrip(Tail(s)) ELSE s

RECURSIVE RStrip(_)
RStrip(s) ==
    IF s # <<>> /\ IsSpace(s[Len(s)]) THEN RStrip(SubSeq(s, 1, Len(s) - 1)) ELSE s

Strip(s) == RStrip(LStrip(s))

\* re.sub(r'[^\w\s]', '', s)
RemovePunct(s) == SelectSeq(s, LAMBDA c : IsWord(c) \/ IsSpace(c))

\* re.sub(r'\s+', ' ', s)
RECURSIVE CollapseSpaces(_)
CollapseSpaces(s) ==
    IF s = <<>> THEN <<>>
    ELSE IF IsSpace(Head(s))
         THEN <<" ">> \o CollapseSpaces(LStrip(s))
         ELSE <<Head(s)>> \o CollapseSpaces(Tail(s))

\* the leading run of non-whitespace characters
RECURSIVE TakeToken(_)
TakeToken(s) ==
    IF s = <<>> \/ IsSpace(Head(s)) THEN <<>> ELSE <<Head(s)>> \o TakeToken(Tail(s))

\* str.split() with no argument
RECURSIVE Split(_)
Split(s) ==
    LET t == LStrip(s)
    IN  IF t = <<>> THEN <<>>
        ELSE LET tok == TakeToken(t)
             IN  <<tok>> \o Split(SubSeq(t, Len(tok) + 1, Len(t)))

\* ' '.join(tokens)
RECURSIVE JoinSpace(_)
JoinSpace(toks) ==
    IF toks = <<>> THEN <<>>
    ELSE IF Len(toks) = 1 THEN toks[1]
    ELSE toks[1] \o <<" ">> \o JoinSpace(Tail(toks))

\* needle in hay
Contains(hay, needle) ==
    \E i \in 0..(Len(hay) - Len(needle)) :
        SubSeq(hay, i + 1, i + Len(needle)) = needle

\* ' ' in s
HasSpace(s) == \E i \in 1..Len(s) : s[i] = " "

\* ------------------------------------------------------------------------
\* Rational numbers
\* ------------------------------------------------------------------------

RECURSIVE GCD(_, _)
GCD(a, b) == IF b = 0 THEN a ELSE GCD(b, a % b)

Rat(n, d) == LET g == GCD(n, d) IN [n |-> n \div g, d |-> d \div g]

Zero == [n |-> 0, d |-> 1]
One == [n |-> 1, d |-> 1]

RatGE(x, y) == x.n * y.d >= y.n * x.d
RatGT(x, y) == x.n * y.d > y.n * x.d
RatAdd(x, y) == Rat(x.n * y.d + y.n * x.d, x.d * y.d)
RatMul(x, y) == Rat(x.n * y.n, x.d * y.d)

Max2(a, b) == IF a >= b THEN a ELSE b

Min2(a, b) == IF a <= b THEN a ELSE b

\* ------------------------------------------------------------------------
\* Levenshtein.distance and difflib.SequenceMatcher(None, a, b).ratio()
\* ------------------------------------------------------------------------

\* one row of the edit-distance table: acc holds the entries for columns
\* 0..Len(acc)-1 of the row of character ch, prev is the row above
RECURSIVE LevRow(_, _, _, _)
LevRow(prev, ch, b, acc) ==
    IF Len(acc) = Len(b) + 1 THEN acc
    ELSE LET j == Len(acc)
             sub == prev[j] + (IF ch = b[j] THEN 0 ELSE 1)
             cell == Min2(Min2(prev[j + 1] + 1, acc[j] + 1), sub)
         IN  LevRow(prev, ch, b, Append(acc, cell))

RECURSIVE LevRows(_, _, _, _)
LevRows(a, b, i, row) ==
    IF i > Len(a) THEN row
    ELSE LevRows(a, b, i + 1, LevRow(row, a[i], b, <<row[1] + 1>>))

\* Levenshtein.distance(a, b): insertions, deletions, substitutions, cost 1
LevenshteinDistance(a, b) ==
    LevRows(a, b, 1, [j \in 1..(Len(b) + 1) |-> j - 1])[Len(b) + 1]

\* length of the common run of a[i:ahi] and b[j:bhi] (0-based, as in Python)
RECURSIVE CommonRun(_, _, _, _, _, _)
CommonRun(a, b, i, j, ahi, bhi) ==
    IF i < ahi /\ j < bhi /\ a[i + 1] = b[j + 1]
    THEN 1 + CommonRun(a, b, i + 1, j + 1, ahi, bhi)
    ELSE 0

\* SequenceMatcher.find_longest_match without junk: scan the start positions
\* (i, j) of a[alo:ahi] x b[blo:bhi] in order and keep the first longest block,
\* so the block found is the longest, of those the one starting earliest in a,
\* of those the earliest in b.  best = <<besti, bestj, bestsize>>
RECURSIVE ScanLongest(_, _, _, _, _, _, _, _)
ScanLongest(a, b, i, j, ahi, blo, bhi, best) ==
    IF i >= ahi THEN best
    ELSE IF j >= bhi THEN ScanLongest(a, b, i + 1, blo, ahi, blo, bhi, best)
    ELSE LET k == CommonRun(a, b, i, j, ahi, bhi)
         IN  ScanLongest(a, b, i, j + 1, ahi, blo, bhi,
                         IF k > best[3] THEN <<i, j, k>> ELSE best)

FindLongestMatch(a, b, alo, ahi, blo, bhi) ==
    ScanLongest(a, b, alo, blo, ahi, blo, bhi, <<alo, blo, 0>>)

\* total size of SequenceMatcher.get_matching_blocks over a[alo:ahi], b[blo:bhi]
RECURSIVE MatchedChars(_, _, _, _, _, _)
MatchedChars(a, b, alo, ahi, blo, bhi) ==
    LET m == FindLongestMatch(a, b, alo, ahi, blo, bhi)
        i == m[1]
        j == m[2]
        k == m[3]
    IN  IF k = 0 THEN 0
        ELSE k
             + (IF alo < i /\ blo < j
                THEN MatchedChars(a, b, alo, i, blo, j) ELSE 0)
             + (IF i + k < ahi /\ j + k < bhi
                THEN MatchedChars(a, b, i + k, ahi, j + k, bhi) ELSE 0)

\* SequenceRatio with the bug of a ratio of 0 for two empty strings
SequenceRatioEmptyZero(a, b) ==
    IF Len(a) + Len(b) = 0 THEN Zero
    ELSE Rat(2 * MatchedChars(a, b, 0, Len(a), 0, Len(b)), Len(a) + Len(b))

\* SequenceMatcher(None, a, b).ratio(): 2.0 * matches / length, 1.0 if length is 0
SequenceRatio(a, b) ==
    IF Len(a) + Len(b) = 0 THEN One
    ELSE Rat(2 * MatchedChars(a, b, 0, Len(a), 0, Len(b)), Len(a) + Len(b))

\* ------------------------------------------------------------------------
\* NameMatcher
\* ------------------------------------------------------------------------

normalize_name(name) ==
    CollapseSpaces(RemovePunct(Strip(Lower(OrEmpty(name)))))

\* LevenshteinSim with the bug of dividing by the shorter length
LevenshteinSimShorter(a, b) ==
    LET m == Max2(Min2(Len(a), Len(b)), 1)
    IN  Rat(m - LevenshteinDistance(a, b), m)

\* 1 - dist / max(len(a), len(b), 1)
LevenshteinSim(a, b) ==
    LET m == Max2(Max2(Len(a), Len(b)), 1)
    IN  Rat(m - LevenshteinDistance(a, b), m)

\* what becomes of Levenshtein.distance in one call of similarity_score:
\* "available" (imported, returns), "missing" (the import failed, Levenshtein
\* is None), "raises" (imported, the call raises and the except branch runs)
LevOutcomes == {"available", "missing", "raises"}

\* similarity_score with the bug of an except branch that scores 0
SimilarityScoreExceptZero(name1, name2, lev) ==
    LET name1_norm == normalize_name(name1)
        name2_norm == normalize_name(name2)
        sequence_sim == SequenceRatio(name1_norm, name2_norm)
        levenshtein_sim == IF lev = "available" THEN LevenshteinSim(name1_norm, name2_norm)
                           ELSE IF lev = "raises" THEN Zero
                           ELSE sequence_sim
    IN  RatAdd(RatMul(levenshtein_sim, Rat(6, 10)), RatMul(sequence_sim, Rat(4, 10)))

\* similarity_score with the bug of exchanged weights
SimilarityScoreSwappedWeights(name1, name2, lev) ==
    LET name1_norm == normalize_name(name1)
        name2_norm == normalize_name(name2)
        sequence_sim == SequenceRatio(name1_norm, name2_norm)
        levenshtein_sim == IF lev = "available" THEN LevenshteinSim(name1_norm, name2_norm)
                           ELSE sequence_sim
    IN  RatAdd(RatMul(levenshtein_sim, Rat(4, 10)), RatMul(sequence_sim, Rat(6, 10)))

\* the body of similarity_score under one outcome of the primitive
SimilarityScoreWith(name1, name2, lev) ==
    LET name1_norm == normalize_name(name1)
        name2_norm == normalize_name(name2)
        sequence_sim == SequenceRatio(name1_norm, name2_norm)
        levenshtein_sim == IF lev = "available" THEN LevenshteinSim(name1_norm, name2_norm)
                           ELSE sequence_sim
    IN  RatAdd(RatMul(levenshtein_sim, Rat(6, 10)), RatMul(sequence_sim, Rat(4, 10)))

\* hasLev: the Levenshtein module was imported (and its calls return)
similarity_score(name1, name2, hasLev) ==
    SimilarityScoreWith(name1, name2, IF hasLev THEN "available" ELSE "missing")

\* extract_name_parts with the bug of a last part that keeps the middle tokens
ExtractNamePartsJoinRest(full_name) ==
    LET parts == Split(OrEmpty(full_name))
    IN  IF Len(parts) = 0 THEN [first |-> <<>>, last |-> <<>>]
        ELSE [first |-> parts[1], last |-> JoinSpace(Tail(parts))]

extract_name_parts(full_name) ==
    LET parts == Split(OrEmpty(full_name))
    IN  IF Len(parts) = 0 THEN [first |-> <<>>, last |-> <<>>]
        ELSE IF Len(parts) = 1 THEN [first |-> parts[1], last |-> <<>>]
        ELSE IF Len(parts) = 2 THEN [first |-> parts[1], last |-> parts[2]]
        ELSE [first |-> parts[1], last |-> parts[Len(parts)]]

\* max(scores): the first of the largest elements
RECURSIVE MaxScore(_)
MaxScore(scores) ==
    IF Len(scores) = 1 THEN scores[1]
    ELSE LET rest == MaxScore(Tail(scores))
         IN  IF RatGE(scores[1], rest) THEN scores[1] ELSE rest

\* f"{emp.get('developer_name', '')}".strip(): None is rendered as the text None
EmpFullName(emp) ==
    Strip(IF emp.developer_name = NULL THEN NoneText ELSE emp.developer_name)

\* the part-pairing score appended to scores when the search name has a last
\* part: the candidate's first token against the search's first part, the
\* candidate's tokens after the first, joined, against the search's last part
PairedScores(search_name, emp_full_name, hasLev) ==
    LET search_parts == extract_name_parts(search_name)
        toks == Split(emp_full_name)
        first_score == similarity_score(search_parts.first,
                           IF emp_full_name # <<>> THEN toks[1] ELSE <<>>, hasLev)
        last_score == similarity_score(search_parts.last,
                           IF HasSpace(emp_full_name) THEN JoinSpace(Tail(toks)) ELSE <<>>,
                           hasLev)
    IN  IF search_parts.last # <<>> /\ (RatGT(first_score, Zero) \/ RatGT(last_score, Zero))
        THEN <<RatMul(RatAdd(first_score, last_score), Rat(1, 2))>>
        ELSE <<>>

\* the scores for the name as stored and with its parts exchanged
SwappedScores(search_name, emp_full_name, hasLev) ==
    LET toks == Split(emp_full_name)
        first_name == toks[1]
        last_name == JoinSpace(Tail(toks))
    IN  IF HasSpace(emp_full_name)
        THEN <<similarity_score(search_name, first_name \o <<" ">> \o last_name, hasLev),
               similarity_score(search_name, last_name \o <<" ">> \o first_name, hasLev)>>
        ELSE <<>>

\* BestScore with the bug of a scores list without the exchanged order
BestScoreNoSwap(search_name, emp, hasLev) ==
    MaxScore(<<similarity_score(search_name, EmpFullName(emp), hasLev)>>
             \o PairedScores(search_name, EmpFullName(emp), hasLev))

\* the scores list of one employee and its maximum
BestScore(search_name, emp, hasLev) ==
    MaxScore(<<similarity_score(search_name, EmpFullName(emp), hasLev)>>
             \o SwappedScores(search_name, EmpFullName(emp), hasLev)
             \o PairedScores(search_name, EmpFullName(emp), hasLev))

\* InsertByScore with the bug of a sort that puts a later entry before its equals
RECURSIVE InsertByScoreBeforeTies(_, _)
InsertByScoreBeforeTies(sorted, m) ==
    IF sorted = <<>> THEN <<m>>
    ELSE IF RatGT(Head(sorted).score, m.score)
         THEN <<Head(sorted)>> \o InsertByScoreBeforeTies(Tail(sorted), m)
         ELSE <<m>> \o sorted

\* list.sort(key=score, reverse=True): insert m behind every entry whose
\* score is not smaller, so that equal scores keep their order
RECURSIVE InsertByScore(_, _)
InsertByScore(sorted, m) ==
    IF sorted = <<>> THEN <<m>>
    ELSE IF RatGE(Head(sorted).score, m.score)
         THEN <<Head(sorted)>> \o InsertByScore(Tail(sorted), m)
         ELSE <<m>> \o sorted

RECURSIVE SortByScoreDesc(_)
SortByScoreDesc(matches) ==
    IF matches = <<>> THEN <<>>
    ELSE InsertByScore(SortByScoreDesc(SubSeq(matches, 1, Len(matches) - 1)),
                       matches[Len(matches)])

\* CollectMatches with the bug of a loop that forgets the threshold test
RECURSIVE CollectMatchesNoFilter(_, _, _, _)
CollectMatchesNoFilter(search_name, employees, threshold, hasLev) ==
    IF employees = <<>> THEN <<>>
    ELSE <<[employee |-> Head(employees),
            score |-> BestScore(search_name, Head(employees), hasLev),
            match_type |-> "fuzzy"]>>
         \o CollectMatchesNoFilter(search_name, Tail(employees), threshold, hasLev)

\* CollectMatches with the bug of an append inside the loop over the scores:
\* a name with a space gets an entry for each order of its parts
RECURSIVE CollectMatchesPerOrder(_, _, _, _)
CollectMatchesPerOrder(search_name, employees, threshold, hasLev) ==
    IF employees = <<>> THEN <<>>
    ELSE LET emp == Head(employees)
             best_score == BestScore(search_name, emp, hasLev)
             entry == [employee |-> emp, score |-> best_score, match_type |-> "fuzzy"]
             rest == CollectMatchesPerOrder(search_name, Tail(employees), threshold, hasLev)
         IN  IF RatGE(best_score, threshold)
             THEN (IF HasSpace(EmpFullName(emp)) THEN <<entry, entry>> ELSE <<entry>>) \o rest
             ELSE rest

\* the loop of fuzzy_match_employee: the matches list before the sort
RECURSIVE CollectMatches(_, _, _, _)
CollectMatches(search_name, employees, threshold, hasLev) ==
    IF employees = <<>> THEN <<>>
    ELSE LET emp == Head(employees)
             best_score == BestScore(search_name, emp, hasLev)
             rest == CollectMatches(search_name, Tail(employees), threshold, hasLev)
         IN  IF RatGE(best_score, threshold)
             THEN <<[employee |-> emp, score |-> best_score, match_type |-> "fuzzy"]>> \o rest
             ELSE rest

fuzzy_match_employee(search_name, employees, threshold, hasLev) ==
    SortByScoreDesc(CollectMatches(search_name, employees, threshold, hasLev))

\* ------------------------------------------------------------------------
\* The record store: table developer
\* ------------------------------------------------------------------------

Emp(id, name, designation, email, number, status) ==
    [id |-> id, developer_name |-> name, designation |-> designation,
     email_id |-> email, mobile |-> NULL, emp_number |-> number, status |-> status]

\* the rows a table may hold, in primary-key order
Pool == <<
    Emp(1, <<"a", "b", "d">>,      <<"D", "e", "v">>, NULL, <<"1">>, 1),
    Emp(2, <<"A", "b", ".", "d">>, NULL, <<"x", "_", "1">>, NULL, 1),
    Emp(3, <<"a", "b">>,           <<"D", "e", "v">>, NULL, <<"2">>, 1),
    Emp(4, <<"a", "b", "e">>,      <<"O", "p", "s">>, NULL, NULL, 1),
    Emp(5, <<"a", "b", " ", "c">>, <<"O", "p", "s">>, NULL, NULL, 1),
    Emp(6, <<"a", "b", "x">>,      NULL, NULL, NULL, 1),
    Emp(7, <<"a", "b", "n">>,      <<"D", "e", "v">>, NULL, NULL, 0),
    Emp(8, NULL,                   NULL, <<"a", "b", "1">>, NULL, 1) >>

\* largest number of rows of the table
MaxStore == 7

\* the rows of Pool with an id in ids, in Pool order
RowsOf(ids) == SelectSeq(Pool, LAMBDA e : e.id \in ids)

Stores == {RowsOf(ids) : ids \in {S \in SUBSET (1..Len(Pool)) : Cardinality(S) <= MaxStore}}

SearchNames == {NULL, <<>>, <<"a", "b", "c">>, <<"a", "b">>, <<"c", " ", "a", "b">>}

Contexts == {NULL, <<>>, <<"D", "e">>, <<"X">>}

Reverse(s) == [i \in 1..Len(s) |-> s[Len(s) + 1 - i]]

\* a SELECT without ORDER BY returns the rows in an order the engine picks:
\* here the table order or its reverse
ScanOrders(table) == {table, Reverse(table)}

\* column LIKE '%term%' under a case-insensitive collation; NULL never matches
Like(field, term) == field # NULL /\ Contains(Lower(field), Lower(term))

\* sort weight of a character under a case-insensitive collation
CharRank(c) ==
    LET l == LowerChar(c)
    IN  CASE l = " " -> 0
          [] l = "." -> 1
          [] l = "1" -> 2
          [] l = "2" -> 3
          [] l = "a" -> 4
          [] l = "b" -> 5
          [] l = "c" -> 6
          [] l = "d" -> 7
          [] l = "e" -> 8
          [] l = "n" -> 9
          [] l = "o" -> 10
          [] l = "p" -> 11
          [] l = "s" -> 12
          [] l = "v" -> 13
          [] l = "x" -> 14
          [] OTHER -> 15

\* x sorts strictly before y (NULL sorts first)
RECURSIVE NameBefore(_, _)
NameBefore(x, y) ==
    IF x = NULL THEN y # NULL
    ELSE IF y = NULL \/ y = <<>> THEN FALSE
    ELSE IF x = <<>> THEN TRUE
    ELSE IF CharRank(Head(x)) # CharRank(Head(y)) THEN CharRank(Head(x)) < CharRank(Head(y))
    ELSE NameBefore(Tail(x), Tail(y))

\* ORDER BY d.developer_name applied to the rows in scan order
RECURSIVE InsertByName(_, _)
InsertByName(sorted, e) ==
    IF sorted = <<>> THEN <<e>>
    ELSE IF NameBefore(e.developer_name, Head(sorted).developer_name)
         THEN <<e>> \o sorted
         ELSE <<Head(sorted)>> \o InsertByName(Tail(sorted), e)

RECURSIVE OrderByName(_)
OrderByName(rs) ==
    IF rs = <<>> THEN <<>>
    ELSE InsertByName(OrderByName(SubSeq(rs, 1, Len(rs) - 1)), rs[Len(rs)])

\* WHERE developer_name LIKE .. OR email_id LIKE .. OR mobile LIKE .. OR emp_number LIKE ..
ExactRows(scan, term) ==
    OrderByName(SelectSeq(scan, LAMBDA e : \/ Like(e.developer_name, term)
                                           \/ Like(e.email_id, term)
                                           \/ Like(e.mobile, term)
                                           \/ Like(e.emp_number, term)))

\* ActiveRows with the bug of a query that leaves out the status condition
ActiveRowsAnyStatus(scan) == scan

\* WHERE d.status = 1
ActiveRows(scan) == SelectSeq(scan, LAMBDA e : e.status = 1)

\* ------------------------------------------------------------------------
\* resolve_employee_ai after fetch_employees_ai has returned
\* ------------------------------------------------------------------------

\* DefaultThreshold with the bug of a default of 0.5
LowerThreshold == Rat(1, 2)

\* the default of fuzzy_match_employee's threshold parameter
DefaultThreshold == Rat(6, 10)

\* the slice [:5] of fetch_employees_ai
MaxFuzzyRows == 5

\* Take with the bug of a missing slice
TakeAll(s, n) == s

Take(s, n) == SubSeq(s, 1, Min2(n, Len(s)))

\* the three tests of the filter that guard absent values with `or ''`
ContextInGuarded(emp, context_lower) ==
    \/ Contains(Lower(OrEmpty(emp.designation)), context_lower)
    \/ Contains(Lower(OrEmpty(emp.email_id)), context_lower)
    \/ Contains(Lower(OrEmpty(emp.emp_number)), context_lower)

\* emp.get('developer_name', '').lower() is reached and the name is None
ContextFaults(emp, context_lower) ==
    ~ContextInGuarded(emp, context_lower) /\ emp.developer_name = NULL

ContextMatches(emp, context_lower) ==
    \/ ContextInGuarded(emp, context_lower)
    \/ Contains(Lower(emp.developer_name), context_lower)

NoResult == [status |-> "none"]

\* ResolveOutcome with the bug of reporting not_found when the context
\* filter keeps no candidate
ResolveOutcomeEmptyFilter(search, context, emps) ==
    IF emps = <<>> THEN [status |-> "not_found", message |-> search]
    ELSE IF Len(emps) = 1 THEN [status |-> "resolved", employee |-> emps[1]]
    ELSE LET context_lower == Lower(OrEmpty(context))
             ambiguous == [status |-> "ambiguous", employees |-> emps,
                           message |-> Len(emps)]
         IN  IF ~Truthy(context) THEN ambiguous
             ELSE IF \E i \in 1..Len(emps) : ContextFaults(emps[i], context_lower)
                  THEN [status |-> "raised", error |-> "AttributeError"]
             ELSE LET filtered_employees ==
                          SelectSeq(emps, LAMBDA e : ContextMatches(e, context_lower))
                  IN  IF Len(filtered_employees) = 1
                      THEN [status |-> "resolved", employee |-> filtered_employees[1]]
                      ELSE IF filtered_employees = <<>>
                      THEN [status |-> "not_found", message |-> search]
                      ELSE ambiguous

\* ResolveOutcome with the bug of filtering by context before the test for
\* a single candidate
ResolveOutcomeFilterFirst(search, context, emps) ==
    IF emps = <<>> THEN [status |-> "not_found", message |-> search]
    ELSE LET context_lower == Lower(OrEmpty(context))
             ambiguous == [status |-> "ambiguous", employees |-> emps,
                           message |-> Len(emps)]
         IN  IF ~Truthy(context)
             THEN IF Len(emps) = 1 THEN [status |-> "resolved", employee |-> emps[1]]
                  ELSE ambiguous
             ELSE IF \E i \in 1..Len(emps) : ContextFaults(emps[i], context_lower)
                  THEN [status |-> "raised", error |-> "AttributeError"]
             ELSE LET filtered_employees ==
                          SelectSeq(emps, LAMBDA e : ContextMatches(e, context_lower))
                  IN  IF Len(filtered_employees) = 1
                      THEN [status |-> "resolved", employee |-> filtered_employees[1]]
                      ELSE ambiguous

\* ResolveOutcome with the bug of an ambiguous result that carries the
\* candidates left by the context filter
ResolveOutcomeFilteredList(search, context, emps) ==
    IF emps = <<>> THEN [status |-> "not_found", message |-> search]
    ELSE IF Len(emps) = 1 THEN [status |-> "resolved", employee |-> emps[1]]
    ELSE LET context_lower == Lower(OrEmpty(context))
         IN  IF ~Truthy(context)
             THEN [status |-> "ambiguous", employees |-> emps, message |-> Len(emps)]
             ELSE IF \E i \in 1..Len(emps) : ContextFaults(emps[i], context_lower)
                  THEN [status |-> "raised", error |-> "AttributeError"]
             ELSE LET filtered_employees ==
                          SelectSeq(emps, LAMBDA e : ContextMatches(e, context_lower))
                  IN  IF Len(filtered_employees) = 1
                      THEN [status |-> "resolved", employee |-> filtered_employees[1]]
                      ELSE [status |-> "ambiguous", employees |-> filtered_employees,
                            message |-> Len(filtered_employees)]

\* the value resolve_employee_ai returns for the fetched employees, or
\* [status |-> "raised"] when the context filter raises AttributeError
ResolveOutcome(search, context, emps) ==
    IF emps = <<>> THEN [status |-> "not_found", message |-> search]
    ELSE IF Len(emps) = 1 THEN [status |-> "resolved", employee |-> emps[1]]
    ELSE LET context_lower == Lower(OrEmpty(context))
             ambiguous == [status |-> "ambiguous", employees |-> emps,
                           message |-> Len(emps)]
         IN  IF ~Truthy(context) THEN ambiguous
             ELSE IF \E i \in 1..Len(emps) : ContextFaults(emps[i], context_lower)
                  THEN [status |-> "raised", error |-> "AttributeError"]
             ELSE LET filtered_employees ==
                          SelectSeq(emps, LAMBDA e : ContextMatches(e, context_lower))
                  IN  IF Len(filtered_employees) = 1
                      THEN [status |-> "resolved", employee |-> filtered_employees[1]]
                      ELSE ambiguous

\* ------------------------------------------------------------------------
\* format_employee_options
\* ------------------------------------------------------------------------

\* the emoji of the option line, one character each
PersonSign == "U+1F464"
BriefcaseSign == "U+1F4BC"
EmailSign == "U+1F4E7"
IdSign == "U+1F194"
PhoneSign == "U+1F4DE"
StatusSign == "U+1F530"

Digits == <<"0", "1", "2", "3", "4", "5", "6", "7", "8", "9">>

\* f"{i}" for an integer i >= 0
RECURSIVE Decimal(_)
Decimal(i) ==
    IF i < 10 THEN <<Digits[i + 1]>>
    ELSE Decimal(i \div 10) \o <<Digits[(i % 10) + 1]>>

\* f"{value}": None is rendered as the text None
Rendered(value) == IF value = NULL THEN NoneText ELSE value

\* f" | {sign} {value}" when the value is truthy
OptionField(sign, value) ==
    IF Truthy(value) THEN <<" ", "|", " ", sign, " ">> \o value ELSE <<>>

\* the line of candidate emp under the number i
FormatOption(i, emp) ==
    Decimal(i) \o <<".", " ", PersonSign, " ">> \o Rendered(emp.developer_name)
        \o OptionField(BriefcaseSign, emp.designation)
        \o OptionField(EmailSign, emp.email_id)
        \o OptionField(IdSign, emp.emp_number)
        \o OptionField(PhoneSign, emp.mobile)
        \o <<" ", "|", " ", StatusSign, " ">>
        \o (IF emp.status = 1 THEN <<"A", "c", "t", "i", "v", "e">>
            ELSE <<"I", "n", "a", "c", "t", "i", "v", "e">>)

\* "\n".join(options)
RECURSIVE JoinLines(_)
JoinLines(options) ==
    IF options = <<>> THEN <<>>
    ELSE IF Len(options) = 1 THEN options[1]
    ELSE options[1] \o <<"\n">> \o JoinLines(Tail(options))

\* format_employee_options with the bug of numbering from 0
FormatEmployeeOptionsFromZero(employees) ==
    JoinLines([i \in 1..Len(employees) |-> FormatOption(i - 1, employees[i])])

format_employee_options(employees) ==
    JoinLines([i \in 1..Len(employees) |-> FormatOption(i, employees[i])])

\* ------------------------------------------------------------------------
\* APIKeyMiddleware.dispatch
\* ------------------------------------------------------------------------

PublicPaths == {"/health", "/", "/.well-known/mcp/tools", "/.well-known/mcp-config"}

BearerPrefix == <<"B", "e", "a", "r", "e", "r", " ">>

\* text.startswith(prefix)
StartsWith(text, prefix) ==
    Len(text) >= Len(prefix) /\ SubSeq(text, 1, Len(prefix)) = prefix

\* text.replace(pattern, ""): every occurrence, left to right
RECURSIVE RemoveAll(_, _)
RemoveAll(text, pattern) ==
    IF text = <<>> THEN <<>>
    ELSE IF StartsWith(text, pattern)
         THEN RemoveAll(SubSeq(text, Len(pattern) + 1, Len(text)), pattern)
         ELSE <<Head(text)>> \o RemoveAll(Tail(text), pattern)

\* text.split(","): the pieces between the commas, empty ones included
RECURSIVE SplitComma(_)
SplitComma(text) ==
    IF \A i \in 1..Len(text) : text[i] # ","
    THEN <<text>>
    ELSE LET k == CHOOSE i \in 1..Len(text) :
                      text[i] = "," /\ \A j \in 1..(i - 1) : text[j] # ","
         IN  <<SubSeq(text, 1, k - 1)>> \o SplitComma(SubSeq(text, k + 1, Len(text)))

\* VALID_API_KEYS for the value of API_KEYS in the environment ("" when unset)
ValidApiKeys(require, api_keys) ==
    IF require THEN {SplitComma(api_keys)[i] : i \in 1..Len(SplitComma(api_keys))} ELSE {}

\* the key of the Authorization header, None when the header gives none
BearerKey(auth_header) ==
    IF Truthy(auth_header) /\ StartsWith(auth_header, BearerPrefix)
    THEN RemoveAll(auth_header, BearerPrefix)
    ELSE NULL

\* ExtractApiKey with the bug of looking at the X-API-Key header first
ExtractApiKeyHeaderFirst(request) ==
    IF Truthy(request.x_api_key) THEN request.x_api_key
    ELSE IF Truthy(BearerKey(request.authorization)) THEN BearerKey(request.authorization)
    ELSE request.query_api_key

\* api_key after the three look-ups
ExtractApiKey(request) ==
    IF Truthy(BearerKey(request.authorization)) THEN BearerKey(request.authorization)
    ELSE IF Truthy(request.x_api_key) THEN request.x_api_key
    ELSE request.query_api_key

\* the response of call_next(request)
HandlerResponse == [status_code |-> 200, by |-> "handler"]

Rejected(code) == [status_code |-> code, by |-> "middleware"]

\* DispatchOutcome with the bug of a scanner mode that lifts the check for
\* every path
DispatchOutcomeScannerAnyPath(request, config) ==
    IF request.path \in PublicPaths THEN [called |-> TRUE, response |-> HandlerResponse]
    ELSE IF config.SCANNER_MODE THEN [called |-> TRUE, response |-> HandlerResponse]
    ELSE IF ~config.REQUIRE_API_KEY THEN [called |-> TRUE, response |-> HandlerResponse]
    ELSE LET api_key == ExtractApiKey(request)
         IN  IF ~Truthy(api_key) THEN [called |-> FALSE, response |-> Rejected(401)]
             ELSE IF api_key \notin config.VALID_API_KEYS
                  THEN [called |-> FALSE, response |-> Rejected(403)]
             ELSE [called |-> TRUE, response |-> HandlerResponse]

\* whether dispatch calls the downstream handler, and what it returns
DispatchOutcome(request, config) ==
    IF request.path \in PublicPaths THEN [called |-> TRUE, response |-> HandlerResponse]
    ELSE IF config.SCANNER_MODE /\ request.path = "/mcp"
         THEN [called |-> TRUE, response |-> HandlerResponse]
    ELSE IF ~config.REQUIRE_API_KEY THEN [called |-> TRUE, response |-> HandlerResponse]
    ELSE LET api_key == ExtractApiKey(request)
         IN  IF ~Truthy(api_key) THEN [called |-> FALSE, response |-> Rejected(401)]
             ELSE IF api_key \notin config.VALID_API_KEYS
                  THEN [called |-> FALSE, response |-> Rejected(403)]
             ELSE [called |-> TRUE, response |-> HandlerResponse]

\* ------------------------------------------------------------------------
\* The locals of concurrent calls of resolve_employee_ai
\* ------------------------------------------------------------------------

\* [match['employee'] for match in matches]
EmployeesOf(matches) == [i \in 1..Len(matches) |-> matches[i].employee]

\* the frame of a call that has not started or has returned
IdleFrame ==
    [pc |-> "idle", search_name |-> NULL, additional_context |-> NULL,
     rows |-> <<>>, employees |-> <<>>, outcome |-> NoResult]

\* BindRows with the bug of rows being a module-level variable that all
\* calls read and write
BindRowsShared(fs, p, r) == [q \in DOMAIN fs |-> [fs[q] EXCEPT !.rows = r]]

\* rows = ... in call p: a local of fetch_employees_ai, bound in p's frame
BindRows(fs, p, r) == [fs EXCEPT ![p].rows = r]

\* ------------------------------------------------------------------------
\* State
\* ------------------------------------------------------------------------

VARIABLES
    store,               \* the developer table
    hasLev,              \* the Levenshtein import succeeded
    pc,                  \* position of the call of resolve_employee_ai
    search_name,         \* argument of resolve_employee_ai
    additional_context,  \* argument of resolve_employee_ai
    conn_open,           \* a connection is open
    cursor_open,         \* a cursor is open
    queries,             \* the statements executed by this call, in order
    rows,                \* local of fetch_employees_ai
    all_employees,       \* local of fetch_employees_ai
    fuzzy_matches,       \* local of fetch_employees_ai
    employees,           \* what fetch_employees_ai returned
    result,              \* what resolve_employee_ai returned
    raised,              \* the exception that left resolve_employee_ai
    m_pc,                \* position of a direct call of fuzzy_match_employee
    m_search,            \* its search_name
    m_employees,         \* its employees
    m_threshold,         \* its threshold
    m_matches,           \* its return value
    t_pc,                \* position of a direct call of a text function
    t_a,                 \* first argument
    t_b,                 \* second argument
    t_lev,               \* what becomes of Levenshtein.distance in the call
    t_norm,              \* normalize_name(t_a)
    t_renorm,            \* normalize_name of that
    t_parts,             \* extract_name_parts(t_a)
    t_score,             \* similarity_score(t_a, t_b)
    t_score_rev,         \* similarity_score(t_b, t_a)
    frames,              \* the locals of each concurrent call of resolve_employee_ai
    f_pc,                \* position of a direct call of format_employee_options
    f_employees,         \* its argument
    f_text,              \* its return value
    d_pc,                \* position of one request in APIKeyMiddleware.dispatch
    d_config,            \* REQUIRE_API_KEY, VALID_API_KEYS, SCANNER_MODE
    d_request,           \* path, Authorization, X-API-Key, api_key parameter
    d_api_key,           \* local api_key of dispatch
    d_called,            \* call_next(request) was awaited
    d_response           \* what dispatch returned

callVars == <<pc, search_name, additional_context, conn_open, cursor_open, queries,
              rows, all_employees, fuzzy_matches, employees, result, raised>>

matcherVars == <<m_pc, m_search, m_employees, m_threshold, m_matches>>

textVars == <<t_pc, t_a, t_b, t_lev, t_norm, t_renorm, t_parts, t_score, t_score_rev>>

formatVars == <<f_pc, f_employees, f_text>>

dispatchVars == <<d_pc, d_config, d_request, d_api_key, d_called, d_response>>

serviceVars == <<frames, formatVars, dispatchVars>>

vars == <<store, hasLev, callVars, matcherVars, textVars, serviceVars>>

\* no call of resolve_employee_ai is in progress
CallIdle ==
    /\ pc = "idle"
    /\ search_name = NULL
    /\ additional_context = NULL
    /\ conn_open = FALSE
    /\ cursor_open = FALSE
    /\ queries = <<>>
    /\ rows = <<>>
    /\ all_employees = <<>>
    /\ fuzzy_matches = <<>>
    /\ employees = <<>>
    /\ result = NoResult
    /\ raised = "none"

MatcherIdle ==
    /\ m_pc = "idle"
    /\ m_search = NULL
    /\ m_employees = <<>>
    /\ m_threshold = DefaultThreshold
    /\ m_matches = <<>>

NoParts == [first |-> NULL, last |-> NULL]

TextIdle ==
    /\ t_pc = "idle"
    /\ t_a = NULL
    /\ t_b = NULL
    /\ t_lev = "missing"
    /\ t_norm = NULL
    /\ t_renorm = NULL
    /\ t_parts = NoParts
    /\ t_score = Zero
    /\ t_score_rev = Zero

\* largest number of calls of resolve_employee_ai in progress at once
MaxCalls == 2

CallIds == 1..MaxCalls

NoConfig == [REQUIRE_API_KEY |-> FALSE, VALID_API_KEYS |-> {}, SCANNER_MODE |-> FALSE]

NoRequest == [path |-> "/", authorization |-> NULL, x_api_key |-> NULL,
              query_api_key |-> NULL]

NoResponse == [status_code |-> 0, by |-> "none"]

FormatIdle ==
    /\ f_pc = "idle"
    /\ f_employees = <<>>
    /\ f_text = <<>>

DispatchIdle ==
    /\ d_pc = "idle"
    /\ d_config = NoConfig
    /\ d_request = NoRequest
    /\ d_api_key = NULL
    /\ d_called = FALSE
    /\ d_response = NoResponse

\* no concurrent call, no formatting and no request is in progress
ServiceIdle ==
    /\ frames = [p \in CallIds |-> IdleFrame]
    /\ FormatIdle
    /\ DispatchIdle

Init ==
    /\ ServiceIdle
    /\ store \in Stores
    /\ hasLev \in BOOLEAN
    /\ CallIdle
    /\ MatcherIdle
    /\ TextIdle

\* ------------------------------------------------------------------------
\* One call of resolve_employee_ai(search_name, additional_context)
\* ------------------------------------------------------------------------

Call(s, c) ==
    /\ pc = "idle"
    /\ pc' = "connect"
    /\ search_name' = s
    /\ additional_context' = c
    /\ UNCHANGED <<conn_open, cursor_open, queries, rows, all_employees,
                   fuzzy_matches, employees, result, raised>>
    /\ UNCHANGED <<store, hasLev, matcherVars, textVars, serviceVars>>

\* conn = get_connection()
GetConnection ==
    /\ pc = "connect"
    /\ conn_open' = TRUE
    /\ pc' = "cursor"
    /\ UNCHANGED <<search_name, additional_context, cursor_open, queries, rows,
                   all_employees, fuzzy_matches, employees, result, raised>>
    /\ UNCHANGED <<store, hasLev, matcherVars, textVars, serviceVars>>

\* get_connection() raises: the call is outside the try statement
GetConnectionFails ==
    /\ pc = "connect"
    /\ raised' = "ConnectError"
    /\ pc' = "done"
    /\ UNCHANGED <<search_name, additional_context, conn_open, cursor_open, queries,
                   rows, all_employees, fuzzy_matches, employees, result>>
    /\ UNCHANGED <<store, hasLev, matcherVars, textVars, serviceVars>>

\* cursor = conn.cursor(dictionary=True)
OpenCursor ==
    /\ pc = "cursor"
    /\ cursor_open' = TRUE
    /\ pc' = "query"
    /\ UNCHANGED <<search_name, additional_context, conn_open, queries, rows,
                   all_employees, fuzzy_matches, employees, result, raised>>
    /\ UNCHANGED <<store, hasLev, matcherVars, textVars, serviceVars>>

\* conn.cursor() raises: the call is outside the try statement
OpenCursorFails ==
    /\ pc = "cursor"
    /\ raised' = "CursorError"
    /\ pc' = "done"
    /\ UNCHANGED <<search_name, additional_context, conn_open, cursor_open, queries,
                   rows, all_employees, fuzzy_matches, employees, result>>
    /\ UNCHANGED <<store, hasLev, matcherVars, textVars, serviceVars>>

\* neither emp_id nor search_term: return []
NoSearchTerm ==
    /\ pc = "query"
    /\ ~Truthy(search_name)
    /\ employees' = <<>>
    /\ pc' = "finally"
    /\ UNCHANGED <<search_name, additional_context, conn_open, cursor_open, queries,
                   rows, all_employees, fuzzy_matches, result, raised>>
    /\ UNCHANGED <<store, hasLev, matcherVars, textVars, serviceVars>>

\* the LIKE query and rows = cursor.fetchall()
ExactQuery ==
    /\ pc = "query"
    /\ Truthy(search_name)
    /\ \E scan \in ScanOrders(store) :
          LET found == ExactRows(scan, search_name)
          IN  /\ rows' = found
              /\ queries' = Append(queries, [q |-> "exact", ok |-> TRUE, n |-> Len(found)])
              /\ IF found = <<>>
                 THEN pc' = "fallback" /\ UNCHANGED employees
                 ELSE pc' = "finally" /\ employees' = found
    /\ UNCHANGED <<search_name, additional_context, conn_open, cursor_open,
                   all_employees, fuzzy_matches, result, raised>>
    /\ UNCHANGED <<store, hasLev, matcherVars, textVars, serviceVars>>

\* ExactQueryFails with the bug of a handler that swallows the error and
\* goes on to the fallback
ExactQueryFailsFallsThrough ==
    /\ pc = "query"
    /\ Truthy(search_name)
    /\ queries' = Append(queries, [q |-> "exact", ok |-> FALSE, n |-> 0])
    /\ pc' = "fallback"
    /\ UNCHANGED <<search_name, additional_context, conn_open, cursor_open, rows,
                   all_employees, fuzzy_matches, employees, result, raised>>
    /\ UNCHANGED <<store, hasLev, matcherVars, textVars, serviceVars>>

\* the LIKE query raises: except Exception: return []
ExactQueryFails ==
    /\ pc = "query"
    /\ Truthy(search_name)
    /\ queries' = Append(queries, [q |-> "exact", ok |-> FALSE, n |-> 0])
    /\ employees' = <<>>
    /\ pc' = "finally"
    /\ UNCHANGED <<search_name, additional_context, conn_open, cursor_open, rows,
                   all_employees, fuzzy_matches, result, raised>>
    /\ UNCHANGED <<store, hasLev, matcherVars, textVars, serviceVars>>

\* the active-set query, the fuzzy matcher and the slice
ActiveQuery ==
    /\ pc = "fallback"
    /\ \E scan \in ScanOrders(store) : all_employees' = ActiveRows(scan)
    /\ fuzzy_matches' = fuzzy_match_employee(search_name, all_employees',
                                              DefaultThreshold, hasLev)
    /\ rows' = Take([i \in 1..Len(fuzzy_matches') |-> fuzzy_matches'[i].employee],
                    MaxFuzzyRows)
    /\ employees' = rows'
    /\ queries' = Append(queries, [q |-> "active", ok |-> TRUE, n |-> Len(all_employees')])
    /\ pc' = "finally"
    /\ UNCHANGED <<search_name, additional_context, conn_open, cursor_open, result, raised>>
    /\ UNCHANGED <<store, hasLev, matcherVars, textVars, serviceVars>>

\* the active-set query raises: except Exception: return []
ActiveQueryFails ==
    /\ pc = "fallback"
    /\ queries' = Append(queries, [q |-> "active", ok |-> FALSE, n |-> 0])
    /\ employees' = <<>>
    /\ pc' = "finally"
    /\ UNCHANGED <<search_name, additional_context, conn_open, cursor_open, rows,
                   all_employees, fuzzy_matches, result, raised>>
    /\ UNCHANGED <<store, hasLev, matcherVars, textVars, serviceVars>>

\* finally: cursor.close(); conn.close()
Finally ==
    /\ pc = "finally"
    /\ cursor_open' = FALSE
    /\ conn_open' = FALSE
    /\ pc' = "resolve"
    /\ UNCHANGED <<search_name, additional_context, queries, rows, all_employees,
                   fuzzy_matches, employees, result, raised>>
    /\ UNCHANGED <<store, hasLev, matcherVars, textVars, serviceVars>>

\* the body of resolve_employee_ai after the fetch
Resolve ==
    /\ pc = "resolve"
    /\ LET out == ResolveOutcome(search_name, additional_context, employees)
       IN  IF out.status = "raised"
           THEN raised' = out.error /\ UNCHANGED result
           ELSE result' = out /\ UNCHANGED raised
    /\ pc' = "done"
    /\ UNCHANGED <<search_name, additional_context, conn_open, cursor_open, queries,
                   rows, all_employees, fuzzy_matches, employees>>
    /\ UNCHANGED <<store, hasLev, matcherVars, textVars, serviceVars>>

\* the caller takes the result; the frame of the call is dropped
Return ==
    /\ pc = "done"
    /\ pc' = "idle"
    /\ search_name' = NULL
    /\ additional_context' = NULL
    /\ conn_open' = FALSE
    /\ cursor_open' = FALSE
    /\ queries' = <<>>
    /\ rows' = <<>>
    /\ all_employees' = <<>>
    /\ fuzzy_matches' = <<>>
    /\ employees' = <<>>
    /\ result' = NoResult
    /\ raised' = "none"
    /\ UNCHANGED <<store, hasLev, matcherVars, textVars, serviceVars>>

Next ==
    \/ \E s \in SearchNames, c \in Contexts : Call(s, c)
    \/ GetConnection
    \/ GetConnectionFails
    \/ OpenCursor
    \/ OpenCursorFails
    \/ NoSearchTerm
    \/ ExactQuery
    \/ ExactQueryFails
    \/ ActiveQuery
    \/ ActiveQueryFails
    \/ Finally
    \/ Resolve
    \/ Return

Spec == Init /\ [][Next]_vars

\* ------------------------------------------------------------------------
\* Direct calls of NameMatcher.fuzzy_match_employee
\* ------------------------------------------------------------------------

\* longest candidate list handed to the matcher
MaxCandidates == 3

\* a candidate whose name has a middle token
ThreeTokenEmp == Emp(9, <<"a", " ", "b", " ", "c">>, NULL, NULL, NULL, 1)

MatcherPool == {Pool[1], Pool[2], Pool[3], Pool[5], Pool[8], ThreeTokenEmp}

RECURSIVE SeqsUpTo(_, _)
SeqsUpTo(S, n) ==
    IF n = 0 THEN {<<>>}
    ELSE LET shorter == SeqsUpTo(S, n - 1)
         IN  shorter \cup {Append(q, x) : q \in {r \in shorter : Len(r) = n - 1}, x \in S}

MatcherSearchNames == {NULL, <<".">>, <<"a", "b", "d">>, <<"a", "b">>, <<"c", " ", "a", "b">>,
                       <<"a", " ", "c">>}

Thresholds == {Zero, Rat(1, 2), Rat(6, 10), Rat(18, 25), One}

InitFuzzy ==
    /\ ServiceIdle
    /\ store = <<>>
    /\ hasLev \in BOOLEAN
    /\ CallIdle
    /\ m_pc = "ready"
    /\ m_search \in MatcherSearchNames
    /\ m_employees \in SeqsUpTo(MatcherPool, MaxCandidates)
    /\ m_threshold \in Thresholds
    /\ m_matches = <<>>
    /\ TextIdle

FuzzyMatchCall ==
    /\ m_pc = "ready"
    /\ m_matches' = fuzzy_match_employee(m_search, m_employees, m_threshold, hasLev)
    /\ m_pc' = "done"
    /\ UNCHANGED <<m_search, m_employees, m_threshold>>
    /\ UNCHANGED <<store, hasLev, callVars, textVars, serviceVars>>

NextFuzzy == FuzzyMatchCall

SpecFuzzy == InitFuzzy /\ [][NextFuzzy]_vars

\* ------------------------------------------------------------------------
\* Direct calls of normalize_name and extract_name_parts
\* ------------------------------------------------------------------------

\* longest argument of normalize_name and extract_name_parts
MaxTextLen == 5

TextAlphabet == {"a", "B", " ", "."}

Texts == SeqsUpTo(TextAlphabet, MaxTextLen) \cup {NULL}

InitNormalize ==
    /\ ServiceIdle
    /\ store = <<>>
    /\ hasLev = FALSE
    /\ CallIdle
    /\ MatcherIdle
    /\ t_pc = "ready"
    /\ t_a \in Texts
    /\ t_b = NULL
    /\ t_lev = "missing"
    /\ t_norm = NULL
    /\ t_renorm = NULL
    /\ t_parts = NoParts
    /\ t_score = Zero
    /\ t_score_rev = Zero

NormalizeCall ==
    /\ t_pc = "ready"
    /\ t_norm' = normalize_name(t_a)
    /\ t_pc' = "normalized"
    /\ UNCHANGED <<t_a, t_b, t_lev, t_renorm, t_parts, t_score, t_score_rev>>
    /\ UNCHANGED <<store, hasLev, callVars, matcherVars, serviceVars>>

\* the result of normalize_name is normalized once more
NormalizeAgain ==
    /\ t_pc = "normalized"
    /\ t_renorm' = normalize_name(t_norm)
    /\ t_pc' = "renormalized"
    /\ UNCHANGED <<t_a, t_b, t_lev, t_norm, t_parts, t_score, t_score_rev>>
    /\ UNCHANGED <<store, hasLev, callVars, matcherVars, serviceVars>>

ExtractCall ==
    /\ t_pc = "ready"
    /\ t_parts' = extract_name_parts(t_a)
    /\ t_pc' = "extracted"
    /\ UNCHANGED <<t_a, t_b, t_lev, t_norm, t_renorm, t_score, t_score_rev>>
    /\ UNCHANGED <<store, hasLev, callVars, matcherVars, serviceVars>>

NextNormalize ==
    \/ NormalizeCall
    \/ NormalizeAgain
    \/ ExtractCall

SpecNormalize == InitNormalize /\ [][NextNormalize]_vars

\* ------------------------------------------------------------------------
\* Direct calls of similarity_score
\* ------------------------------------------------------------------------

\* longest argument of similarity_score
MaxPairLen == 3

PairAlphabet == {"a", "b", " "}

PairTexts == SeqsUpTo(PairAlphabet, MaxPairLen) \cup {NULL}

InitSimilarity ==
    /\ ServiceIdle
    /\ store = <<>>
    /\ t_lev \in LevOutcomes
    /\ hasLev = (t_lev # "missing")
    /\ CallIdle
    /\ MatcherIdle
    /\ t_pc = "ready"
    /\ t_a \in PairTexts
    /\ t_b \in PairTexts
    /\ t_norm = NULL
    /\ t_renorm = NULL
    /\ t_parts = NoParts
    /\ t_score = Zero
    /\ t_score_rev = Zero

ScoreCall ==
    /\ t_pc = "ready"
    /\ t_score' = SimilarityScoreWith(t_a, t_b, t_lev)
    /\ t_pc' = "scored"
    /\ UNCHANGED <<t_a, t_b, t_lev, t_norm, t_renorm, t_parts, t_score_rev>>
    /\ UNCHANGED <<store, hasLev, callVars, matcherVars, serviceVars>>

\* the same call with the arguments exchanged
ScoreReversedCall ==
    /\ t_pc = "scored"
    /\ t_score_rev' = SimilarityScoreWith(t_b, t_a, t_lev)
    /\ t_pc' = "scored_both"
    /\ UNCHANGED <<t_a, t_b, t_lev, t_norm, t_renorm, t_parts, t_score>>
    /\ UNCHANGED <<store, hasLev, callVars, matcherVars, serviceVars>>

NextSimilarity ==
    \/ ScoreCall
    \/ ScoreReversedCall

SpecSimilarity == InitSimilarity /\ [][NextSimilarity]_vars

\* ------------------------------------------------------------------------
\* Direct calls of format_employee_options
\* ------------------------------------------------------------------------

\* longest list drawn freely from FormatPool
MaxOptions == 3

\* a row with a mobile number
MobileEmp == [Emp(10, <<"a", "b">>, NULL, NULL, NULL, 1) EXCEPT !.mobile = <<"9", "1">>]

FormatPool == <<Pool[1], Pool[2], Pool[7], Pool[8], MobileEmp>>

\* a list long enough for numbers of two digits
LongList == [i \in 1..11 |-> FormatPool[(i % Len(FormatPool)) + 1]]

FormatInputs ==
    SeqsUpTo({FormatPool[i] : i \in 1..Len(FormatPool)}, MaxOptions) \cup {LongList}

InitFormat ==
    /\ store = <<>>
    /\ hasLev = FALSE
    /\ CallIdle
    /\ MatcherIdle
    /\ TextIdle
    /\ frames = [p \in CallIds |-> IdleFrame]
    /\ DispatchIdle
    /\ f_pc = "ready"
    /\ f_employees \in FormatInputs
    /\ f_text = <<>>

FormatCall ==
    /\ f_pc = "ready"
    /\ f_text' = format_employee_options(f_employees)
    /\ f_pc' = "formatted"
    /\ UNCHANGED <<f_employees, frames, dispatchVars>>
    /\ UNCHANGED <<store, hasLev, callVars, matcherVars, textVars>>

NextFormat == FormatCall

SpecFormat == InitFormat /\ [][NextFormat]_vars

\* ------------------------------------------------------------------------
\* One request through APIKeyMiddleware.dispatch
\* ------------------------------------------------------------------------

Paths == PublicPaths \cup {"/mcp", "/mcp/", "/health/", "/tools"}

\* values of API_KEYS: unset or empty, one key, two keys, a trailing comma
ApiKeysValues == {<<>>, <<"k">>, <<"k", ",", "j">>, <<"k", ",">>}

AuthorizationValues ==
    {NULL, <<>>, BearerPrefix, BearerPrefix \o <<"k">>, BearerPrefix \o <<"z">>,
     BearerPrefix \o BearerPrefix \o <<"k">>, <<"k">>,
     <<"b", "e", "a", "r", "e", "r", " ", "k">>}

KeyValues == {NULL, <<>>, <<"k">>, <<"j">>, <<"z">>}

Configs ==
    {[REQUIRE_API_KEY |-> r, VALID_API_KEYS |-> ValidApiKeys(r, a), SCANNER_MODE |-> m] :
        r \in BOOLEAN, a \in ApiKeysValues, m \in BOOLEAN}

Requests ==
    [path : Paths, authorization : AuthorizationValues, x_api_key : KeyValues,
     query_api_key : KeyValues]

InitDispatch ==
    /\ store = <<>>
    /\ hasLev = FALSE
    /\ CallIdle
    /\ MatcherIdle
    /\ TextIdle
    /\ frames = [p \in CallIds |-> IdleFrame]
    /\ FormatIdle
    /\ d_pc = "received"
    /\ d_config \in Configs
    /\ d_request \in Requests
    /\ d_api_key = NULL
    /\ d_called = FALSE
    /\ d_response = NoResponse

\* the checks that end without looking for a key
SkipsAuth(request, config) ==
    \/ request.path \in PublicPaths
    \/ config.SCANNER_MODE /\ request.path = "/mcp"
    \/ ~config.REQUIRE_API_KEY

Dispatch ==
    /\ d_pc = "received"
    /\ d_api_key' = IF SkipsAuth(d_request, d_config) THEN NULL ELSE ExtractApiKey(d_request)
    /\ d_called' = DispatchOutcome(d_request, d_config).called
    /\ d_response' = DispatchOutcome(d_request, d_config).response
    /\ d_pc' = "responded"
    /\ UNCHANGED <<d_config, d_request, frames, formatVars>>
    /\ UNCHANGED <<store, hasLev, callVars, matcherVars, textVars>>

NextDispatch == Dispatch

SpecDispatch == InitDispatch /\ [][NextDispatch]_vars

\* ------------------------------------------------------------------------
\* Concurrent calls of resolve_employee_ai against one table
\* ------------------------------------------------------------------------

ConcurrentStores == {RowsOf({1, 4}), RowsOf({3, 7, 8})}

ConcurrentSearchNames == {<<>>, <<"a", "b">>, <<"a", "b", "c">>}

ConcurrentContexts == {NULL, <<"D", "e">>}

InitConcurrent ==
    /\ store \in ConcurrentStores
    /\ hasLev = TRUE
    /\ CallIdle
    /\ MatcherIdle
    /\ TextIdle
    /\ frames = [p \in CallIds |-> IdleFrame]
    /\ FormatIdle
    /\ DispatchIdle

restVars == <<store, hasLev, callVars, matcherVars, textVars, formatVars, dispatchVars>>

\* call p starts: resolve_employee_ai(s, c) enters fetch_employees_ai, which
\* opens its own connection and cursor
StartCall(p, s, c) ==
    /\ frames[p].pc = "idle"
    /\ frames' = [frames EXCEPT ![p] = [IdleFrame EXCEPT !.pc = "query",
                                                          !.search_name = s,
                                                          !.additional_context = c]]
    /\ UNCHANGED restVars

\* call p starts and get_connection() or conn.cursor() raises, outside the
\* try statement
StartCallFails(p, s, c) ==
    /\ frames[p].pc = "idle"
    /\ \E error \in {"ConnectError", "CursorError"} :
           frames' = [frames EXCEPT ![p] = [IdleFrame EXCEPT
                          !.pc = "done",
                          !.search_name = s,
                          !.additional_context = c,
                          !.outcome = [status |-> "raised", error |-> error]]]
    /\ UNCHANGED restVars

\* what call p returns once fetch_employees_ai has returned emps: the
\* frame at the end of resolve_employee_ai
Resolved(fs, p, emps) ==
    [fs EXCEPT ![p].employees = emps,
               ![p].outcome = ResolveOutcome(fs[p].search_name,
                                             fs[p].additional_context, emps),
               ![p].pc = "done"]

\* neither emp_id nor search_term in call p: return []
FrameNoSearchTerm(p) ==
    /\ frames[p].pc = "query"
    /\ ~Truthy(frames[p].search_name)
    /\ frames' = Resolved(frames, p, <<>>)
    /\ UNCHANGED restVars

\* the LIKE query of call p and rows = cursor.fetchall()
FrameExactQuery(p) ==
    /\ frames[p].pc = "query"
    /\ Truthy(frames[p].search_name)
    /\ \E scan \in ScanOrders(store) :
           frames' = [BindRows(frames, p, ExactRows(scan, frames[p].search_name))
                          EXCEPT ![p].pc = "fetched"]
    /\ UNCHANGED restVars

\* the LIKE query of call p raises: return []
FrameExactQueryFails(p) ==
    /\ frames[p].pc = "query"
    /\ Truthy(frames[p].search_name)
    /\ frames' = Resolved(frames, p, <<>>)
    /\ UNCHANGED restVars

\* rows is not empty: return rows
FrameReturnRows(p) ==
    /\ frames[p].pc = "fetched"
    /\ frames[p].rows # <<>>
    /\ frames' = Resolved(frames, p, frames[p].rows)
    /\ UNCHANGED restVars

\* not rows: the active-set query, the matcher, rows = the top five; return rows
FrameFallback(p) ==
    /\ frames[p].pc = "fetched"
    /\ frames[p].rows = <<>>
    /\ \E scan \in ScanOrders(store) :
           LET bound == BindRows(frames, p,
                            Take(EmployeesOf(fuzzy_match_employee(
                                     frames[p].search_name, ActiveRows(scan),
                                     DefaultThreshold, hasLev)),
                                 MaxFuzzyRows))
           IN  frames' = Resolved(bound, p, bound[p].rows)
    /\ UNCHANGED restVars

\* the active-set query of call p raises: return []
FrameFallbackFails(p) ==
    /\ frames[p].pc = "fetched"
    /\ frames[p].rows = <<>>
    /\ frames' = Resolved(frames, p, <<>>)
    /\ UNCHANGED restVars

\* call p returns or raises to its caller; its frame is dropped
FrameReturn(p) ==
    /\ frames[p].pc = "done"
    /\ frames' = [frames EXCEPT ![p] = IdleFrame]
    /\ UNCHANGED restVars

NextConcurrent ==
    \E p \in CallIds :
        \/ \E s \in ConcurrentSearchNames, c \in ConcurrentContexts : StartCall(p, s, c)
        \/ \E s \in ConcurrentSearchNames, c \in ConcurrentContexts : StartCallFails(p, s, c)
        \/ FrameNoSearchTerm(p)
        \/ FrameExactQuery(p)
        \/ FrameExactQueryFails(p)
        \/ FrameReturnRows(p)
        \/ FrameFallback(p)
        \/ FrameFallbackFails(p)
        \/ FrameReturn(p)

SpecConcurrent == InitConcurrent /\ [][NextConcurrent]_vars

\* ------------------------------------------------------------------------
\* Properties
\* ------------------------------------------------------------------------

\* fetch_employees_ai has returned a list to resolve_employee_ai
FetchReturned ==
    \/ pc \in {"finally", "resolve"}
    \/ pc = "done" /\ raised \notin {"ConnectError", "CursorError"}

ExactIssued == \E i \in 1..Len(queries) : queries[i].q = "exact"
ActiveIssued == \E i \in 1..Len(queries) : queries[i].q = "active"
ExactReturned(P(_)) ==
    \E i \in 1..Len(queries) : queries[i].q = "exact" /\ queries[i].ok /\ P(queries[i].n)
ActiveReturned == \E i \in 1..Len(queries) : queries[i].q = "active" /\ queries[i].ok
IsZero(n) == n = 0
IsPositive(n) == n > 0

StoreRows == {store[i] : i \in 1..Len(store)}

LikeRow(e, term) ==
    \/ Like(e.developer_name, term)
    \/ Like(e.email_id, term)
    \/ Like(e.mobile, term)
    \/ Like(e.emp_number, term)

\* C1: with a non-empty search term the fuzzy fallback runs if and only if
\* the exact query returned zero rows; one or more exact rows are returned
\* unchanged; the matcher only ever receives rows with status = 1.
C1_FallbackIffNoExactRows ==
    /\ (FetchReturned /\ Truthy(search_name)) =>
           /\ ActiveIssued <=> ExactReturned(IsZero)
           /\ (fuzzy_matches # <<>> \/ all_employees # <<>>) => ExactReturned(IsZero)
    /\ (FetchReturned /\ ExactReturned(IsPositive)) =>
           /\ employees = rows
           /\ Len(rows) = queries[1].n
           /\ {rows[i] : i \in 1..Len(rows)} = {e \in StoreRows : LikeRow(e, search_name)}
    /\ \A i \in 1..Len(all_employees) : all_employees[i].status = 1
    /\ \A i \in 1..Len(fuzzy_matches) :
           /\ fuzzy_matches[i].employee.status = 1
           /\ \E j \in 1..Len(all_employees) : all_employees[j] = fuzzy_matches[i].employee

\* the fallback ran on a table that also holds an inactive row, and found matches
C1_Witness ==
    /\ pc = "resolve"
    /\ ExactReturned(IsZero)
    /\ ActiveReturned
    /\ Len(fuzzy_matches) >= 2
    /\ \E e \in StoreRows : e.status = 0

\* a failure of the store happened during the call
StoreFailed ==
    \/ raised \in {"ConnectError", "CursorError"}
    \/ \E i \in 1..Len(queries) : ~queries[i].ok

\* C2: every failure of the store (connect, cursor, exact query, active-set
\* query) ends the call with the not_found outcome and never with an exception.
C2_StoreFailureIsNotFound ==
    (pc = "done" /\ StoreFailed) => (raised = "none" /\ result.status = "not_found")

\* an active row of the table scores at or above the default threshold
SomeActiveScores ==
    \E e \in StoreRows :
        e.status = 1 /\ RatGE(BestScore(search_name, e, hasLev), DefaultThreshold)

\* C3: the result is not_found exactly when the working candidate set is
\* empty, and the set is empty exactly when the exact query gave no rows and
\* the matcher kept no active record, with or without a context.
C3_NotFoundIffNoCandidates ==
    /\ (pc = "done" /\ raised = "none") =>
           /\ result.status = "not_found" <=> employees = <<>>
           /\ employees = <<>> <=> (~ExactReturned(IsPositive) /\ fuzzy_matches = <<>>)
    /\ (pc = "done" /\ ActiveReturned) => (fuzzy_matches = <<>> <=> ~SomeActiveScores)

\* not_found although a context was given and active rows exist below the threshold
C3_Witness ==
    /\ pc = "done"
    /\ result.status = "not_found"
    /\ Truthy(additional_context)
    /\ ActiveReturned
    /\ all_employees # <<>>

\* the context, lowercased, is in one of the four fields (absent read as empty)
ContextIn(e, context) ==
    LET c == Lower(OrEmpty(context))
    IN  \/ Contains(Lower(OrEmpty(e.designation)), c)
        \/ Contains(Lower(OrEmpty(e.email_id)), c)
        \/ Contains(Lower(OrEmpty(e.emp_number)), c)
        \/ Contains(Lower(OrEmpty(e.developer_name)), c)

\* C4: a working candidate set of exactly one member is resolved to that
\* member whatever the context is.
C4_SingleCandidateResolved ==
    (pc = "done" /\ FetchReturned /\ Len(employees) = 1) =>
        /\ raised = "none"
        /\ result = [status |-> "resolved", employee |-> employees[1]]

\* one candidate, and a context that is in none of its fields
C4_Witness ==
    /\ pc = "done"
    /\ Len(employees) = 1
    /\ Truthy(additional_context)
    /\ ~ContextIn(employees[1], additional_context)
    /\ result.status = "resolved"

\* C5: with two or more candidates and a non-empty context, the result is
\* resolved with e if and only if e is the only candidate that has the
\* lowercased context in its designation, email, employee number or name.
C5_ContextResolvesUniqueMatch ==
    (pc = "done" /\ FetchReturned /\ Len(employees) >= 2 /\ Truthy(additional_context)) =>
        \A i \in 1..Len(employees) :
            (raised = "none" /\ result = [status |-> "resolved", employee |-> employees[i]])
            <=> (\A j \in 1..Len(employees) :
                     ContextIn(employees[j], additional_context) <=> j = i)

\* number of candidates that have the context in one of the four fields
ContextHits == Cardinality({j \in 1..Len(employees) : ContextIn(employees[j], additional_context)})

\* C6: with two or more candidates and a context that is absent, empty or
\* matches zero or at least two candidates, the result is ambiguous with the
\* whole working candidate set in its order and its length in the message.
C6_AmbiguousKeepsCandidates ==
    (/\ pc = "done"
     /\ FetchReturned
     /\ Len(employees) >= 2
     /\ (~Truthy(additional_context) \/ ContextHits # 1)) =>
        /\ raised = "none"
        /\ result = [status |-> "ambiguous", employees |-> employees,
                     message |-> Len(employees)]

\* C7: after an exact query with zero rows the working candidate set is the
\* first min(5, n) entries of the matcher's ranked output, in that order, and
\* n counts the active rows scoring at least 0.6.
C7_FallbackTakesTopFive ==
    /\ (FetchReturned /\ ExactReturned(IsZero)) =>
           /\ employees = EmployeesOf(SubSeq(fuzzy_matches, 1, Min2(5, Len(fuzzy_matches))))
           /\ Len(employees) <= 5
           /\ \A i \in 1..(Len(fuzzy_matches) - 1) :
                  RatGE(fuzzy_matches[i].score, fuzzy_matches[i + 1].score)
    /\ (FetchReturned /\ ActiveReturned) =>
           /\ fuzzy_matches =
                  fuzzy_match_employee(search_name, all_employees, Rat(6, 10), hasLev)
           /\ Len(fuzzy_matches) =
                  Cardinality({e \in StoreRows :
                      e.status = 1 /\ RatGE(BestScore(search_name, e, hasLev), Rat(6, 10))})

\* six active rows matched and five were kept
C7_Witness ==
    /\ pc = "resolve"
    /\ Len(fuzzy_matches) = 6
    /\ Len(employees) = 5

\* C8: one call issues at most two queries, the exact query first and the
\* active-set query only after the exact query completed with zero rows;
\* nothing is issued after a query failed.
C8_AtMostTwoQueriesInOrder ==
    /\ Len(queries) <= 2
    /\ Len(queries) >= 1 => queries[1].q = "exact"
    /\ Len(queries) = 2 =>
           /\ queries[2].q = "active"
           /\ queries[1].ok
           /\ queries[1].n = 0
    /\ \A i \in 1..(Len(queries) - 1) : queries[i].ok

\* both queries were issued
C8_Witness == Len(queries) = 2 /\ pc = "done"

\* C9: every entry fuzzy_match_employee returns has a score of at least the
\* threshold and match_type 'fuzzy'.
C9_MatchesReachThreshold ==
    m_pc = "done" =>
        \A i \in 1..Len(m_matches) :
            /\ RatGE(m_matches[i].score, m_threshold)
            /\ m_matches[i].match_type = "fuzzy"

\* a call that kept some candidates and dropped others
C9_Witness ==
    /\ m_pc = "done"
    /\ m_threshold # DefaultThreshold
    /\ Len(m_matches) >= 1
    /\ Len(m_matches) < Len(m_employees)

\* C10: the returned list is sorted by non-increasing score and entries of
\* equal score keep the relative order of their employees in the input list.
C10_SortedDescendingStable ==
    m_pc = "done" =>
        /\ \A i \in 1..(Len(m_matches) - 1) :
               RatGE(m_matches[i].score, m_matches[i + 1].score)
        /\ \E pos \in [1..Len(m_matches) -> 1..Len(m_employees)] :
               /\ \A i \in 1..Len(m_matches) : m_employees[pos[i]] = m_matches[i].employee
               /\ \A i, j \in 1..Len(m_matches) :
                      (i < j /\ m_matches[i].score = m_matches[j].score) => pos[i] < pos[j]

\* two different employees tie, and a lower-placed input outranks an earlier one
C10_Witness ==
    /\ m_pc = "done"
    /\ Len(m_matches) = 3
    /\ m_matches[1].score = m_matches[2].score
    /\ m_matches[1].employee # m_matches[2].employee
    /\ m_matches[1].employee = m_employees[2]
    /\ m_matches[2].employee = m_employees[3]
    /\ m_matches[3].employee = m_employees[1]

\* C11: fuzzy_match_employee returns at most one entry per input position
\* (so never more entries than candidates), and every returned employee is
\* an element of the input list.
C11_AtMostOneEntryPerCandidate ==
    m_pc = "done" =>
        /\ Len(m_matches) <= Len(m_employees)
        /\ \E pos \in [1..Len(m_matches) -> 1..Len(m_employees)] :
               /\ \A i, j \in 1..Len(m_matches) : i # j => pos[i] # pos[j]
               /\ \A i \in 1..Len(m_matches) : m_matches[i].employee = m_employees[pos[i]]

\* every candidate was returned, among them a record given twice and a name
\* with a space
C11_Witness ==
    /\ m_pc = "done"
    /\ Len(m_employees) = 3
    /\ Len(m_matches) = 3
    /\ m_employees[1] = m_employees[2]
    /\ HasSpace(EmpFullName(m_employees[3]))

\* C12: normalize_name is idempotent, also for input whose leading or
\* trailing characters are punctuation next to whitespace.
C12_NormalizeIdempotent ==
    t_pc = "renormalized" => t_renorm = t_norm

\* C13: similarity_score(a, b) = similarity_score(b, a), with the
\* edit-distance primitive and with the ratio as its fallback.
C13_SimilaritySymmetric ==
    t_pc = "scored_both" => t_score = t_score_rev

\* C14: 0 <= similarity_score(a, b) <= 1 for all arguments, empty and
\* missing ones included.
C14_ScoreInUnitInterval ==
    /\ t_pc \in {"scored", "scored_both"} => (RatGE(t_score, Zero) /\ RatGE(One, t_score))
    /\ t_pc = "scored_both" => (RatGE(t_score_rev, Zero) /\ RatGE(One, t_score_rev))

\* a missing argument scored against a text of the greatest length, scoring 0
C14_Witness ==
    /\ t_pc = "scored"
    /\ t_a = NULL
    /\ t_b # NULL
    /\ normalize_name(t_b) # <<>>
    /\ t_lev = "available"
    /\ t_score = Zero

\* C15: similarity_score(a, b) is 1.0 if and only if the normalized
\* arguments are equal; a text against itself and two arguments that
\* normalize to the empty string give 1.0.
C15_OneIffSameNormalized ==
    t_pc \in {"scored", "scored_both"} =>
        /\ t_score = One <=> normalize_name(t_a) = normalize_name(t_b)
        /\ t_a = t_b => t_score = One
        /\ (normalize_name(t_a) = <<>> /\ normalize_name(t_b) = <<>>) => t_score = One

\* two different arguments that both normalize to the empty string score 1
C15_Witness ==
    /\ t_pc = "scored"
    /\ t_a = NULL
    /\ t_b = <<" ">>
    /\ t_lev = "available"
    /\ t_score = One

C17_NamePartsByTokenCount ==
    t_pc = "extracted" =>
        LET toks == Split(OrEmpty(t_a))
            n == Len(toks)
        IN  /\ n = 0 => t_parts = [first |-> <<>>, last |-> <<>>]
            /\ n = 1 => t_parts = [first |-> toks[1], last |-> <<>>]
            /\ n = 2 => t_parts = [first |-> toks[1], last |-> toks[2]]
            /\ n >= 3 => t_parts = [first |-> toks[1], last |-> toks[n]]
            /\ ~HasSpace(t_parts.first)
            /\ ~HasSpace(t_parts.last)

\* three tokens, the middle one different from the first and the last
C17_Witness ==
    /\ t_pc = "extracted"
    /\ t_a = <<"a", " ", ".", " ", "B">>
    /\ t_parts = [first |-> <<"a">>, last |-> <<"B">>]

\* the part-pairing score with the candidate split by extract_name_parts
PairedScoresSameSplit(name, emp_full_name, lev) ==
    LET search_parts == extract_name_parts(name)
        emp_parts == extract_name_parts(emp_full_name)
        first_score == similarity_score(search_parts.first, emp_parts.first, lev)
        last_score == similarity_score(search_parts.last, emp_parts.last, lev)
    IN  IF search_parts.last # <<>> /\ (RatGT(first_score, Zero) \/ RatGT(last_score, Zero))
        THEN <<RatMul(RatAdd(first_score, last_score), Rat(1, 2))>>
        ELSE <<>>

\* C18: the part-pairing score splits the candidate's name by the rule of
\* the search name (first token, last token) and is the average of the two
\* part similarities whenever either is nonzero.
C18_PairingSplitsCandidateLikeSearch ==
    m_pc = "done" =>
        \A i \in 1..Len(m_employees) :
            PairedScores(m_search, EmpFullName(m_employees[i]), hasLev)
                = PairedScoresSameSplit(m_search, EmpFullName(m_employees[i]), hasLev)

\* C19: for a single candidate whose normalized full name equals the
\* normalized search name, fuzzy_match_employee returns exactly one entry
\* with score 1.0, for every threshold in [0, 1].
C19_EqualNameScoresOne ==
    (/\ m_pc = "done"
     /\ Len(m_employees) = 1
     /\ normalize_name(m_employees[1].developer_name) = normalize_name(m_search)) =>
        /\ Len(m_matches) = 1
        /\ m_matches[1].employee = m_employees[1]
        /\ m_matches[1].score = One

\* candidate i has the two-token name 'A B' and the search name is 'B A'
IsReversedOf(name, emp) ==
    LET toks == Split(EmpFullName(emp))
    IN  /\ Len(toks) = 2
        /\ EmpFullName(emp) = toks[1] \o <<" ">> \o toks[2]
        /\ name = toks[2] \o <<" ">> \o toks[1]

\* C20: a candidate named 'A B' is returned for the search name 'B A' with
\* the score 1.0 of the reversed order, for every threshold in [0, 1].
C20_ReversedOrderRecovered ==
    m_pc = "done" =>
        \A i \in 1..Len(m_employees) :
            (m_search # NULL /\ IsReversedOf(m_search, m_employees[i])) =>
                \E k \in 1..Len(m_matches) :
                    /\ m_matches[k].employee = m_employees[i]
                    /\ m_matches[k].score = One
                    /\ RatGE(m_matches[k].score, m_threshold)

\* the reversed name is found at threshold 1 although the name as stored
\* scores below the default threshold
C20_Witness ==
    /\ m_pc = "done"
    /\ m_threshold = One
    /\ hasLev
    /\ Len(m_employees) = 2
    /\ IsReversedOf(m_search, m_employees[2])
    /\ ~RatGE(similarity_score(m_search, EmpFullName(m_employees[2]), hasLev), DefaultThreshold)
    /\ Len(m_matches) = 1
    /\ m_matches[1].employee = m_employees[2]

\* the active rows of the table that score at least 0.6 against the search name
ActiveScoring ==
    {e \in StoreRows : e.status = 1 /\ RatGE(BestScore(search_name, e, hasLev), Rat(6, 10))}

\* C21: when the exact query returned zero rows and exactly one active row
\* scores at least 0.6, the result is resolved with that row; no row that is
\* not active is returned through the fuzzy fallback.
C21_FallbackResolvesSingleMatch ==
    /\ (pc = "done" /\ ExactReturned(IsZero) /\ ActiveReturned
            /\ Cardinality(ActiveScoring) = 1) =>
           /\ raised = "none"
           /\ result.status = "resolved"
           /\ result.employee \in ActiveScoring
    /\ (FetchReturned /\ ActiveIssued) =>
           \A i \in 1..Len(employees) : employees[i].status = 1
    /\ (pc = "done" /\ ActiveIssued /\ raised = "none") =>
           /\ result.status = "resolved" => result.employee.status = 1
           /\ result.status = "ambiguous" =>
                  \A i \in 1..Len(result.employees) : result.employees[i].status = 1

\* resolved through the fallback with a context given, on a table with a
\* second active row below the threshold and a row that is not active but
\* scores at least 0.6
C21_Witness ==
    /\ pc = "done"
    /\ ExactReturned(IsZero)
    /\ ActiveReturned
    /\ Len(all_employees) = 2
    /\ Cardinality(ActiveScoring) = 1
    /\ \E e \in StoreRows :
           e.status = 0 /\ RatGE(BestScore(search_name, e, hasLev), Rat(6, 10))
    /\ Truthy(additional_context)
    /\ result.status = "resolved"

\* C23: the context filter treats an absent or null designation, email,
\* employee number or full name as the empty string and never faults.
C23_ContextFilterNeverFaults ==
    pc = "done" => raised # "AttributeError"

\* C26: every result has one of the statuses not_found, resolved,
\* ambiguous; a resolved result carries exactly one employee, a member of
\* the working candidate set; an ambiguous result carries two or more.
C26_ResultShape ==
    (pc = "done" /\ raised = "none") =>
        /\ result.status \in {"not_found", "resolved", "ambiguous"}
        /\ result.status = "not_found" => DOMAIN result = {"status", "message"}
        /\ result.status = "resolved" =>
               /\ DOMAIN result = {"status", "employee"}
               /\ \E i \in 1..Len(employees) : employees[i] = result.employee
        /\ result.status = "ambiguous" =>
               /\ DOMAIN result = {"status", "employees", "message"}
               /\ Len(result.employees) >= 2

\* ambiguous although the context is in no field of any candidate
C26_Witness ==
    /\ pc = "done"
    /\ raised = "none"
    /\ result.status = "ambiguous"
    /\ Truthy(additional_context)
    /\ \A i \in 1..Len(employees) : ~ContextIn(employees[i], additional_context)

\* C27: a call with an empty or missing search name returns not_found and
\* issues no query, whatever the table holds.
C27_EmptyNameNotFoundNoQuery ==
    (pc = "done" /\ ~Truthy(search_name)) =>
        /\ raised = "none"
        /\ result.status = "not_found"
        /\ queries = <<>>

\* the edit distance by its defining recursion: the fewest insertions,
\* deletions and substitutions of one character that turn a into b
RECURSIVE EditDistance(_, _)
EditDistance(a, b) ==
    IF a = <<>> THEN Len(b)
    ELSE IF b = <<>> THEN Len(a)
    ELSE IF Head(a) = Head(b) THEN EditDistance(Tail(a), Tail(b))
    ELSE 1 + Min2(EditDistance(Tail(a), Tail(b)),
                  Min2(EditDistance(Tail(a), b), EditDistance(a, Tail(b))))

\* C25: with the edit-distance primitive available, similarity_score(a, b) =
\* 0.6 * (1 - levenshtein(a', b') / max(len(a'), len(b'), 1)) + 0.4 * 2M/T on
\* the normalized inputs a' and b', M the size of the matching blocks and T
\* the sum of the lengths (ratio 1 when T = 0).
C25_BlendOfDistanceAndRatio ==
    (t_pc \in {"scored", "scored_both"} /\ t_lev = "available") =>
        LET a == normalize_name(t_a)
            b == normalize_name(t_b)
            m == Max2(Max2(Len(a), Len(b)), 1)
            d == EditDistance(a, b)
            T == Len(a) + Len(b)
            M == MatchedChars(a, b, 0, Len(a), 0, Len(b))
        IN  IF T = 0 THEN t_score = One
            ELSE t_score.n * (10 * m * T) = t_score.d * (6 * (m - d) * T + 4 * 2 * M * m)

\* a pair whose two terms differ: distance term 1/3 and ratio 2/3 give 7/15
C25_Witness ==
    /\ t_pc = "scored"
    /\ t_lev = "available"
    /\ t_a = <<"b", " ", "a">>
    /\ t_b = <<"a", "b", "a">>
    /\ t_score = Rat(7, 15)

\* the lists fetch_employees_ai can return for one search name when the
\* call runs alone against the table
FetchAlone(table, s, lev) ==
    IF ~Truthy(s) THEN {<<>>}
    ELSE {<<>>} \cup UNION {
             LET found == ExactRows(scan, s)
             IN  IF found # <<>> THEN {found}
                 ELSE {Take(EmployeesOf(fuzzy_match_employee(s, ActiveRows(second),
                                                             Rat(6, 10), lev)), 5) :
                          second \in ScanOrders(table)} :
             scan \in ScanOrders(table)}

\* what resolve_employee_ai(s, c) can return or raise when it runs alone
AloneOutcomes(table, s, c, lev) ==
    {[status |-> "raised", error |-> e] : e \in {"ConnectError", "CursorError"}}
        \cup {ResolveOutcome(s, c, emps) : emps \in FetchAlone(table, s, lev)}

FramesIndependent ==
    \A p \in CallIds :
        /\ frames[p].pc = "idle" => frames[p] = IdleFrame
        /\ frames[p].pc = "done" =>
               frames[p].outcome \in AloneOutcomes(store, frames[p].search_name,
                                                   frames[p].additional_context, hasLev)

\* C22: interleaved calls of resolve_employee_ai against an unchanging table
\* each end as they can end when run alone; a call that has returned leaves
\* no local behind, and no step of a call writes the table or the module's
\* configuration.
C22_CallsShareNoState ==
    /\ []FramesIndependent
    /\ [][store' = store /\ hasLev' = hasLev]_vars

\* two calls with different search names are at their end at once, one
\* resolved from exact rows and one ambiguous from the fuzzy fallback
C22_Witness ==
    /\ frames[1].pc = "done"
    /\ frames[2].pc = "done"
    /\ frames[1].search_name = <<"a", "b">>
    /\ frames[2].search_name = <<"a", "b", "c">>
    /\ frames[1].outcome.status = "resolved"
    /\ frames[2].outcome.status = "ambiguous"

\* the lines of a text: the pieces between its line breaks; no line for the
\* empty text
RECURSIVE LinesOf(_)
LinesOf(text) ==
    IF text = <<>> THEN <<>>
    ELSE IF \A i \in 1..Len(text) : text[i] # "\n" THEN <<text>>
    ELSE LET k == CHOOSE i \in 1..Len(text) :
                      text[i] = "\n" /\ \A j \in 1..(i - 1) : text[j] # "\n"
         IN  <<SubSeq(text, 1, k - 1)>>
                 \o (IF k = Len(text) THEN <<<<>>>> ELSE LinesOf(SubSeq(text, k + 1, Len(text))))

\* C24: format_employee_options renders one line per candidate, in the order
\* of the list, line i numbered i and showing candidate i; none is dropped,
\* duplicated or moved.
C24_OptionsKeepOrder ==
    f_pc = "formatted" =>
        LET lines == LinesOf(f_text)
        IN  /\ Len(lines) = Len(f_employees)
            /\ \A i \in 1..Len(lines) :
                   /\ StartsWith(lines[i], Decimal(i) \o <<".", " ", PersonSign, " ">>
                                               \o Rendered(f_employees[i].developer_name))
                   /\ lines[i] = FormatOption(i, f_employees[i])
                   /\ Cardinality({j \in 1..Len(lines[i]) : lines[i][j] = StatusSign}) = 1

\* eleven candidates, the same record at several places, a candidate without
\* a name: the last line carries the number 11
C24_Witness ==
    /\ f_pc = "formatted"
    /\ Len(f_employees) = 11
    /\ f_employees[1] = f_employees[6]
    /\ \E i \in 1..11 : f_employees[i].developer_name = NULL
    /\ StartsWith(LinesOf(f_text)[11], <<"1", "1", ".", " ">>)

\* the request is subject to the key check: key checking is required, the
\* path is not public and scanner mode does not lift the check for it
KeyChecked ==
    /\ d_config.REQUIRE_API_KEY
    /\ d_request.path \notin {"/health", "/", "/.well-known/mcp/tools", "/.well-known/mcp-config"}
    /\ ~(d_config.SCANNER_MODE /\ d_request.path = "/mcp")

\* the non-empty keys the request presents, in any of the three places
PresentedKeys ==
    {k \in {BearerKey(d_request.authorization), d_request.x_api_key,
            d_request.query_api_key} : k # NULL /\ k # <<>>}

\* C28: with key checking required and scanner mode off, a request to a path
\* outside the four public paths reaches the handler only with a non-empty
\* key of VALID_API_KEYS; without a key it gets 401, with keys outside the
\* set 403, the handler not being called; public paths always reach the
\* handler; scanner mode lifts the check for /mcp and for no other path.
C28_HandlerNeedsValidKey ==
    d_pc = "responded" =>
        /\ d_called <=> d_response = HandlerResponse
        /\ d_request.path \in {"/health", "/", "/.well-known/mcp/tools",
                               "/.well-known/mcp-config"} => d_called
        /\ (d_config.SCANNER_MODE /\ d_request.path = "/mcp") => d_called
        /\ KeyChecked =>
               /\ d_called => \E k \in PresentedKeys : k \in d_config.VALID_API_KEYS
               /\ PresentedKeys = {} => (~d_called /\ d_response.status_code = 401)
               /\ (PresentedKeys # {} /\ PresentedKeys \cap d_config.VALID_API_KEYS = {}) =>
                      (~d_called /\ d_response.status_code = 403)
               /\ ~d_called => d_response.status_code \in {401, 403}

\* scanner mode is on and a request to a path other than /mcp, carrying an
\* empty key while the empty string is in VALID_API_KEYS, is turned away
C28_Witness ==
    /\ d_pc = "responded"
    /\ d_config.REQUIRE_API_KEY
    /\ d_config.SCANNER_MODE
    /\ <<>> \in d_config.VALID_API_KEYS
    /\ d_request.path = "/mcp/"
    /\ d_request.x_api_key = <<>>
    /\ PresentedKeys = {}
    /\ ~d_called
    /\ d_response.status_code = 401

\* the first non-empty value among the Bearer key, the X-API-Key header and
\* the api_key parameter, in that order; None when there is none
FirstKey ==
    LET sources == <<BearerKey(d_request.authorization), d_request.x_api_key,
                     d_request.query_api_key>>
        filled == {i \in 1..3 : sources[i] # NULL /\ sources[i] # <<>>}
    IN  IF filled = {} THEN NULL
        ELSE sources[CHOOSE i \in filled : \A j \in filled : i <= j]

\* C29: dispatch validates the key of the first source that yields a
\* non-empty value, in the order Bearer header, X-API-Key header, api_key
\* parameter, and no other: an invalid Bearer key gets 403 even when another
\* source holds a valid key.
C29_FirstSourceDecides ==
    (d_pc = "responded" /\ KeyChecked) =>
        /\ FirstKey # NULL => d_api_key = FirstKey
        /\ FirstKey = NULL => d_response.status_code = 401
        /\ (FirstKey # NULL /\ FirstKey \notin d_config.VALID_API_KEYS) =>
               (~d_called /\ d_response.status_code = 403)
        /\ (FirstKey # NULL /\ FirstKey \in d_config.VALID_API_KEYS) => d_called

\* an invalid Bearer key is refused although both the X-API-Key header and
\* the api_key parameter hold valid keys
C29_Witness ==
    /\ d_pc = "responded"
    /\ KeyChecked
    /\ d_request.authorization = BearerPrefix \o <<"z">>
    /\ d_request.x_api_key \in d_config.VALID_API_KEYS
    /\ d_request.query_api_key \in d_config.VALID_API_KEYS
    /\ d_request.x_api_key # d_request.query_api_key
    /\ d_response.status_code = 403
    /\ ~d_called

====
